---- MODULE Spec2Model ----
(***************************************************************************)
(* External merge sort of a line-oriented text file (external_sort.py).    *)
(*                                                                         *)
(* A file is a flat sequence of characters.  Characters are small          *)
(* integers ordered like their code points: NL ('\n') < CharA ('a')        *)
(* < CharB ('b').  A line is the characters up to and including the next   *)
(* NL, as Python's text-mode iteration returns it.                         *)
(***************************************************************************)
EXTENDS Integers, Sequences, FiniteSets, TLC

\* ---------------------------------------------------------------- bounds
MaxLines == 4
MaxChunks == 8
MaxMemory == 12
MaxBuffer == 3

\* ------------------------------------------------------------- alphabet
NL == 0
CharA == 1
CharB == 2

\* The records the input files are made of: "b\n", "ab\n", "abab\n".
LineSet ==
    { <<CharB, NL>>, <<CharA, CharB, NL>>, <<CharA, CharB, CharA, CharB, NL>> }

\* Constructor arguments tried; None stands for an omitted argument.
None == 0
MemoryLimitArgs == {None, 3, 4, 5}
BufferSizeArgs == {None, 1, 2}

\* io.DEFAULT_BUFFER_SIZE
DEFAULT_BUFFER_SIZE == 8192

\* psutil.virtual_memory().available: the number of bytes the machine
\* reports at the call, which no code of the repository determines and
\* which differs from one machine and one call to the next (about 16 * 2^30
\* on a machine with 16 GiB free).
AvailableMemory == Nat

\* The reported values the runs are checked with: 2^20 and 2^31 - 1024,
\* the largest multiple of 1024 (psutil reports whole kilobytes) among the
\* integers of the checker; the value of a machine with more free memory
\* than 2 GiB is in AvailableMemory but beyond those integers.  Every
\* value above twice the buffer size and above the size of the input gives
\* the same run.
AvailableMemoryTried ==
    { m \in {1048576, 2147482624} : m \in AvailableMemory }

\* ------------------------------------------------------ sequence helpers
Range(s) == { s[i] : i \in DOMAIN s }

RECURSIVE Concat(_)
\* file.write(line) for each line in turn: the lines' characters, joined
Concat(lines) ==
    IF lines = <<>> THEN <<>> ELSE Head(lines) \o Concat(Tail(lines))

RECURSIVE FirstNL(_, _)
\* index of the first NL of data at or after i, or 0
FirstNL(data, i) ==
    IF i > Len(data) THEN 0
    ELSE IF data[i] = NL THEN i
    ELSE FirstNL(data, i + 1)

RECURSIVE SplitLines(_)
\* iterating a text file: lines keep their NL, a last line may lack it
SplitLines(data) ==
    IF data = <<>> THEN <<>>
    ELSE LET k == FirstNL(data, 1) IN
         IF k = 0 THEN << data >>
         ELSE << SubSeq(data, 1, k) >> \o SplitLines(SubSeq(data, k + 1, Len(data)))

RECURSIVE ReadlinesFrom(_, _, _)
\* io readlines(hint) over the remaining lines: a line is appended, and
\* reading stops as soon as the total so far exceeds hint
ReadlinesFrom(lines, hint, length) ==
    IF lines = <<>> THEN <<>>
    ELSE LET line == Head(lines) IN
         IF hint > 0 /\ Len(line) > hint - length
         THEN << line >>
         ELSE << line >> \o ReadlinesFrom(Tail(lines), hint, length + Len(line))

\* f.readlines(hint) on a stream positioned after pos characters
Readlines(data, pos, hint) ==
    ReadlinesFrom(SplitLines(SubSeq(data, pos + 1, Len(data))), hint, 0)

RECURSIVE StrLess(_, _)
\* Python's s < t on str: lexicographic by code point, a proper prefix is less
StrLess(s, t) ==
    IF t = <<>> THEN FALSE
    ELSE IF s = <<>> THEN TRUE
    ELSE IF Head(s) # Head(t) THEN Head(s) < Head(t)
    ELSE StrLess(Tail(s), Tail(t))

\* index of a largest element of a non-empty list: a reversed comparison
MaxIndex(lines) ==
    CHOOSE i \in DOMAIN lines :
        \A j \in DOMAIN lines :
            StrLess(lines[j], lines[i]) \/ (~StrLess(lines[i], lines[j]) /\ i <= j)

\* index of a smallest element of a non-empty list (the first such)
MinIndex(lines) ==
    CHOOSE i \in DOMAIN lines :
        \A j \in DOMAIN lines :
            StrLess(lines[i], lines[j]) \/ (~StrLess(lines[j], lines[i]) /\ i <= j)

RemoveAt(s, i) == SubSeq(s, 1, i - 1) \o SubSeq(s, i + 1, Len(s))

\* a block written back in the order it was read
HeapSortUnsorted(block_lines) == block_lines

\* a heap sort that keeps one copy of each distinct line
HeapSortDedup(block_lines) ==
    LET RECURSIVE Pops(_)
        Pops(ls) ==
            IF ls = <<>> THEN <<>>
            ELSE LET i == MinIndex(ls) IN
                 << ls[i] >> \o Pops(SelectSeq(ls, LAMBDA x : x # ls[i]))
    IN Pops(block_lines)

RECURSIVE HeapSort(_)
\* heapq.heapify(block_lines), then len(block_lines) times heappop: the
\* lines in ascending order
HeapSort(block_lines) ==
    IF block_lines = <<>> THEN <<>>
    ELSE LET i == MinIndex(block_lines) IN
         << block_lines[i] >> \o HeapSort(RemoveAt(block_lines, i))

\* a merge that writes its inputs one after the other
HeapqMergeConcat(its) ==
    LET RECURSIVE Cat(_)
        Cat(fs) == IF fs = <<>> THEN <<>> ELSE Head(fs) \o Cat(Tail(fs))
    IN Cat(its)

RECURSIVE HeapqMerge(_)
\* heapq.merge(*opened_files): repeatedly yields the smallest head line of
\* the inputs, the earliest input first among equal heads
HeapqMerge(its) ==
    LET live == { i \in DOMAIN its : its[i] # <<>> } IN
    IF live = {} THEN <<>>
    ELSE LET k == CHOOSE i \in live :
                     \A j \in live :
                         \/ StrLess(Head(its[i]), Head(its[j]))
                         \/ (~StrLess(Head(its[j]), Head(its[i])) /\ i <= j)
         IN << Head(its[k]) >> \o HeapqMerge([its EXCEPT ![k] = Tail(its[k])])

RECURSIVE MergeSources(_, _)
\* heapq.merge, for each line it yields: the input the line comes from and
\* whether the generator is then suspended in `yield from` of that input.
\* While two or more inputs have a line left the lines are yielded by the
\* heap loop; the first line yielded with a single input left is its head
\* (a plain yield) and the lines after it are delegated to the input.
MergeSources(its, single) ==
    LET live == { i \in DOMAIN its : its[i] # <<>> } IN
    IF live = {} THEN <<>>
    ELSE LET k == CHOOSE i \in live :
                     \A j \in live :
                         \/ StrLess(Head(its[i]), Head(its[j]))
                         \/ (~StrLess(Head(its[j]), Head(its[i])) /\ i <= j)
             alone == Cardinality(live) = 1
         IN << [src |-> k, delegated |-> alone /\ single] >> \o
            MergeSources([its EXCEPT ![k] = Tail(its[k])], alone)

\* every order in which a directory listing can return the names in S
Perms(S) ==
    { s \in [1..Cardinality(S) -> S] :
        \A i, j \in 1..Cardinality(S) : i # j => s[i] # s[j] }

Min(a, b) == IF a <= b THEN a ELSE b

\* ------------------------------------------------------------ the planner
RECURSIVE CeilLog(_, _, _, _)
\* ceil(ln N / ln(M/B - 1)) for M/B > 2: the least k >= k0 with
\* (M/B - 1)^k >= N, in exact arithmetic
CeilLog(N, M, B, k) ==
    IF (M - B) ^ k >= N * B ^ k THEN k ELSE CeilLog(N, M, B, k + 1)

RECURSIVE FloorLogInv(_, _, _, _)
\* floor(ln N / ln(B/(M - B))) for 1 < M/B < 2: the greatest k >= k0 with
\* (B/(M - B))^k <= N
FloorLogInv(N, M, B, k) ==
    IF B ^ (k + 1) <= N * (M - B) ^ (k + 1)
    THEN FloorLogInv(N, M, B, k + 1) ELSE k

\* floor(N ** (1/K)): the greatest x >= x0 with x^K <= N
FloorRoot(N, K, x) ==
    LET RECURSIVE F(_)
        F(y) == IF (y + 1) ^ K <= N THEN F(y + 1) ELSE y
    IN F(x)

RECURSIVE CeilRoot(_, _, _)
\* ceil of the exact K-th root of N for K >= 1: the least x >= x0 with
\* x^K >= N
CeilRoot(N, K, x) ==
    IF x ^ K >= N THEN x ELSE CeilRoot(N, K, x + 1)

\* Chunk counts of a large input that are exact powers: 3^5, 4^5, 5^5, 6^5
\* and 8^9.  The planner is applied to them with buffer_size = 1, where
\* M/B - 1 is a whole number and every power it takes stays within 32 bits.
LargeChunkCounts == { 243, 1024, 3125, 7776, 134217728 }

\* Of the (N, M, B) with M/B > 2 and either N <= 10, M <= 14, B <= 4 or
\* N in LargeChunkCounts, M <= 14, B = 1, those where the float64 value of
\* lines 156-160, 1 / (log(M/B - 1) / log(N)), lies above the whole number
\* it equals in exact arithmetic, so that its ceiling is one more:
\* log(8) / log(134217728) is 0x1.c71c71c71c71bp-4, just under 1/9, and its
\* reciprocal is 9.000000000000002 (the two logarithms are the correctly
\* rounded ones).
FloatLogExcess == { << 134217728, 9, 1 >> }

\* Of the (N, K) the planner reaches on those arguments, the ones where
\* the float64 value of lines 161-163, N ** (1 / K), lies above the whole
\* number it equals in exact arithmetic: 1/5 rounds up to
\* 0.2000000000000000111, and
\* 3125 ** 0.2 = 5.000000000000001, 7776 ** 0.2 = 6.000000000000001
\* (243 ** 0.2 = 3.0 and 1024 ** 0.2 = 4.0).
FloatPowExcess == { << 3125, 5 >>, << 7776, 5 >> }

Raise(e) ==
    [err |-> e, num_merges |-> 0, num_files_to_merge |-> 0, buffer_size |-> 0]

\* The (N, M, B) with 1 < M/B < 2, N <= 16 and B <= 6 where N is an exact
\* power of B/(M - B) and the float64 quotient 1 / (log(M/B - 1) / log(N))
\* falls just short of that integer power in magnitude, so that the ceiling
\* is one more than the exact value.
FloatShortfall ==
    { <<3, 4, 3>>, <<3, 8, 6>>, <<5, 6, 5>>, <<8, 3, 2>>, <<8, 6, 4>>,
      <<8, 9, 6>>, <<9, 4, 3>>, <<9, 8, 6>> }

\* a planner that special-cases nothing and always answers with a two-way
\* merge in ceil(log2 N) passes
GetPassParamsTwoWay(N, M, B, upd) ==
    [err |-> "none", num_merges |-> CeilLog(N, 3, 1, 1),
     num_files_to_merge |-> 2, buffer_size |-> B]

\* _get_pass_params with num_split_files = N, memory_limit = M,
\* buffer_size = B (M, B > 0).  The float64 expression
\* 1 / (log(M/B - 1) / log(N)) is inf, -inf or nan outside M/B > 2, N >= 2,
\* and int() of those raises.  For M/B > 2 the two ceilings are those of
\* the float64 values: the exact ceilings (the powers stay within 32 bits
\* for N <= 10, M <= 14, B <= 4 and for N in LargeChunkCounts, M <= 14,
\* B = 1), and one more for the arguments in FloatLogExcess and
\* FloatPowExcess.  The fan-in does not depend on M and B once K is known,
\* so it can exceed M/B - 1, and int(M / (X + 1)) can then be 0.
GetPassParams(N, M, B, upd) ==
    IF M < B THEN Raise("ValueError")                    \* log(<0) = nan
    ELSE IF N = 0 THEN                                   \* log(0) = -inf
        IF M = B THEN Raise("ValueError") ELSE Raise("OverflowError")
    ELSE IF N = 1 THEN                                   \* log(1) = 0
        IF M = 2 * B THEN Raise("ValueError") ELSE Raise("ZeroDivisionError")
    ELSE IF M = B THEN Raise("ZeroDivisionError")        \* num_merges = 0
    ELSE IF M = 2 * B THEN Raise("OverflowError")        \* int(inf)
    ELSE IF M < 2 * B THEN
        LET exact == FloorLogInv(N, M, B, 0)
            k == IF <<N, M, B>> \in FloatShortfall THEN exact - 1 ELSE exact
        IN
        IF k = 0 THEN Raise("ZeroDivisionError")
        ELSE [err |-> "none", num_merges |-> 0 - k, num_files_to_merge |-> 1,
              buffer_size |-> IF upd THEN M \div 2 ELSE B]
    ELSE
        LET K == CeilLog(N, M, B, 1)
                 + (IF << N, M, B >> \in FloatLogExcess THEN 1 ELSE 0)
            X == CeilRoot(N, K, 1)
                 + (IF << N, K >> \in FloatPowExcess THEN 1 ELSE 0)
        IN [err |-> "none", num_merges |-> K, num_files_to_merge |-> X,
            buffer_size |-> IF upd THEN M \div (X + 1) ELSE B]

\* _make_tempfile_path: 'split_{i}.txt' or 'merge_{pass}_{i}.txt'; with any
\* other mode it raises ValueError, written << "ValueError" >>.  _split and
\* _merge set mode before they call it.
MakeTempfilePath(md, file_index, pass_index) ==
    IF md = "split" THEN << "split", file_index >>
    ELSE IF md = "merge" THEN << "merge", pass_index, file_index >>
    ELSE << "ValueError" >>

\* ------------------------------------------------------------- directory
\* open(name, 'w'), write, close: the file name now holds data
Put(dir, name, data) ==
    [n \in DOMAIN dir \cup {name} |-> IF n = name THEN data ELSE dir[n]]

\* os.remove of every name in names
Del(dir, names) == [n \in DOMAIN dir \ names |-> dir[n]]

EmptyDir == [n \in {} |-> <<>>]

Unbound == <<>>

\* ----------------------------------------------------------------- state
VARIABLES
    input,              \* contents of the file at file_path
    args,               \* constructor arguments of this run's object
    memory_limit, buffer_size, update_buffer_size,      \* object fields
    mode, num_split_files,                              \* object fields
    pc, err,            \* where sort() is, and the exception that ended it
    temp_dir_exists,    \* the directory file_path + '__tmp' exists
    temp_dir,           \* its files: name -> contents
    f_pos, block_index,                                 \* _split locals
    num_merges, num_files_to_merge,                     \* _merge locals
    merge_index, temp_files, start_index, save_path_tmp,
    files_to_merge, opened_files,                       \* _merge_files
    temp_path,          \* argument of _move_to_save_path
    save_file,          \* destination: <<>> if absent, else << contents >>
    dir_at_call,        \* temp_dir when the current _merge_files was called
    sort_calls,         \* 1 in the first run on this input, 2 in the second
    prev_run            \* destination, chunk and pass count of the first run

vars ==
    << input, args, memory_limit, buffer_size, update_buffer_size, mode,
       num_split_files, pc, err, temp_dir_exists, temp_dir, f_pos,
       block_index, num_merges, num_files_to_merge, merge_index, temp_files,
       start_index, save_path_tmp, files_to_merge, opened_files, temp_path,
       save_file, dir_at_call, sort_calls, prev_run >>

runVars ==
    << mode, num_split_files, temp_dir_exists, temp_dir, f_pos, block_index,
       num_merges, num_files_to_merge, merge_index, temp_files, start_index,
       save_path_tmp, files_to_merge, opened_files, temp_path, save_file,
       dir_at_call >>

\* files of at most MaxLines records, each record terminated by NL
RECURSIVE LineSeqs(_)
LineSeqs(n) ==
    IF n = 0 THEN { <<>> }
    ELSE LineSeqs(n - 1) \cup
         { Append(s, l) : s \in { t \in LineSeqs(n - 1) : Len(t) = n - 1 },
                          l \in LineSet }

InputFiles == { Concat(ls) : ls \in LineSeqs(MaxLines) }

ArgSets ==
    [memory_limit : MemoryLimitArgs, buffer_size : BufferSizeArgs,
     update_buffer_size : BOOLEAN]

\* ExternalMergeSort.__init__ followed by the entry of sort(): the fields
\* that __init__ sets, and everything else not yet assigned
Construct(a) ==
    /\ args = a
    /\ buffer_size = IF a.buffer_size = None THEN DEFAULT_BUFFER_SIZE
                     ELSE a.buffer_size
    /\ memory_limit \in IF a.memory_limit = None THEN AvailableMemoryTried
                        ELSE {a.memory_limit}
    /\ update_buffer_size = a.update_buffer_size
    /\ mode = "unset"
    /\ num_split_files = 0
    /\ pc = "Idle"
    /\ err = "none"
    /\ temp_dir_exists = FALSE
    /\ temp_dir = EmptyDir
    /\ f_pos = 0
    /\ block_index = 0
    /\ num_merges = 0
    /\ num_files_to_merge = 0
    /\ merge_index = 0
    /\ temp_files = <<>>
    /\ start_index = 0
    /\ save_path_tmp = Unbound
    /\ files_to_merge = <<>>
    /\ opened_files = <<>>
    /\ temp_path = Unbound
    /\ save_file = <<>>
    /\ dir_at_call = EmptyDir

Init ==
    /\ input \in InputFiles
    /\ \E a \in ArgSets : Construct(a)
    /\ sort_calls = 1
    /\ prev_run = [out |-> <<>>, chunks |-> 0, passes |-> 0]

\* --------------------------------------------------------------- actions
\* an exception that is caught and logged: the run is reported finished
FailSwallowed(e) ==
    /\ pc' = "Done"
    /\ err' = e

Fail(e) ==
    /\ pc' = "Failed"
    /\ err' = e

\* sort(), lines 81-82: _make_temp_dir creates the workspace directory
MakeTempDir ==
    /\ pc = "Idle"
    /\ temp_dir_exists' = TRUE
    /\ mode' = "split"
    /\ f_pos' = 0
    /\ block_index' = 0
    /\ pc' = "Splitting"
    /\ UNCHANGED << input, args, memory_limit, buffer_size,
                    update_buffer_size, num_split_files, err, temp_dir,
                    num_merges, num_files_to_merge, merge_index, temp_files,
                    start_index, save_path_tmp, files_to_merge, opened_files,
                    temp_path, save_file, dir_at_call, sort_calls,
                    prev_run >>

\* _split, one turn of the while loop: a non-empty block is heap-sorted and
\* written to split_{block_index}.txt
SplitBlock ==
    /\ pc = "Splitting"
    /\ LET block_lines == Readlines(input, f_pos, memory_limit) IN
       /\ block_lines # <<>>
       /\ temp_dir' = Put(temp_dir, MakeTempfilePath(mode, block_index, None),
                          Concat(HeapSort(block_lines)))
       /\ f_pos' = f_pos + Len(Concat(block_lines))
    /\ block_index' = block_index + 1
    /\ UNCHANGED << input, args, memory_limit, buffer_size,
                    update_buffer_size, mode, num_split_files, pc, err,
                    temp_dir_exists, num_merges, num_files_to_merge,
                    merge_index, temp_files, start_index, save_path_tmp,
                    files_to_merge, opened_files, temp_path, save_file,
                    dir_at_call, sort_calls, prev_run >>

\* _split, the empty block that ends the loop, line 117
SplitEnd ==
    /\ pc = "Splitting"
    /\ Readlines(input, f_pos, memory_limit) = <<>>
    /\ num_split_files' = block_index
    /\ pc' = "Planning"
    /\ UNCHANGED << input, args, memory_limit, buffer_size,
                    update_buffer_size, mode, err, temp_dir_exists, temp_dir,
                    f_pos, block_index, num_merges, num_files_to_merge,
                    merge_index, temp_files, start_index, save_path_tmp,
                    files_to_merge, opened_files, temp_path, save_file,
                    dir_at_call, sort_calls, prev_run >>

\* an entry of _merge that has no shortcut for a single chunk
MergeBeginNoShortcut ==
    /\ pc = "Planning"
    /\ mode' = "merge"
    /\ LET plan == GetPassParams(num_split_files, memory_limit, buffer_size,
                                 update_buffer_size) IN
       IF plan.err # "none"
       THEN /\ Fail(plan.err)
            /\ UNCHANGED << buffer_size, num_merges, num_files_to_merge,
                            merge_index, temp_path >>
       ELSE /\ num_merges' = plan.num_merges
            /\ num_files_to_merge' = plan.num_files_to_merge
            /\ buffer_size' = plan.buffer_size
            /\ merge_index' = 0
            /\ pc' = "PassMerging"
            /\ UNCHANGED << err, temp_path >>
    /\ UNCHANGED << input, args, memory_limit, update_buffer_size,
                    num_split_files, temp_dir_exists, temp_dir, f_pos,
                    block_index, temp_files, start_index, save_path_tmp,
                    files_to_merge, opened_files, save_file, dir_at_call,
                    sort_calls, prev_run >>

\* _merge, lines 198-208: a single chunk goes straight to
\* _move_to_save_path; otherwise the plan is computed once and its buffer
\* size stored
MergeBegin ==
    /\ pc = "Planning"
    /\ mode' = "merge"
    /\ IF num_split_files = 1
       THEN /\ temp_path' = << "split", 0 >>
            /\ pc' = "Finalizing"
            /\ UNCHANGED << err, buffer_size, num_merges, num_files_to_merge,
                            merge_index >>
       ELSE LET plan == GetPassParams(num_split_files, memory_limit,
                                      buffer_size, update_buffer_size) IN
            IF plan.err # "none"
            THEN /\ Fail(plan.err)
                 /\ UNCHANGED << buffer_size, num_merges, num_files_to_merge,
                                 merge_index, temp_path >>
            ELSE /\ num_merges' = plan.num_merges
                 /\ num_files_to_merge' = plan.num_files_to_merge
                 /\ buffer_size' = plan.buffer_size
                 /\ merge_index' = 0
                 /\ pc' = "PassMerging"
                 /\ UNCHANGED << err, temp_path >>
    /\ UNCHANGED << input, args, memory_limit, update_buffer_size,
                    num_split_files, temp_dir_exists, temp_dir, f_pos,
                    block_index, temp_files, start_index, save_path_tmp,
                    files_to_merge, opened_files, save_file, dir_at_call,
                    sort_calls, prev_run >>

\* _merge, lines 210-212: a pass lists the workspace, in whatever order the
\* file system returns the names
PassBegin ==
    /\ pc = "PassMerging"
    /\ merge_index < num_merges
    /\ \E listing \in Perms(DOMAIN temp_dir) :
          /\ temp_files' = listing
          /\ IF listing = <<>>
             THEN /\ merge_index' = merge_index + 1
                  /\ pc' = "PassMerging"
             ELSE /\ merge_index' = merge_index
                  /\ pc' = "GroupOpen"
    /\ start_index' = 0
    /\ UNCHANGED << input, args, memory_limit, buffer_size,
                    update_buffer_size, mode, num_split_files, err,
                    temp_dir_exists, temp_dir, f_pos, block_index, num_merges,
                    num_files_to_merge, save_path_tmp, files_to_merge,
                    opened_files, temp_path, save_file, dir_at_call,
                    sort_calls, prev_run >>

\* _merge, line 211: listing the workspace with iterdir fails
PassBeginFails ==
    /\ pc = "PassMerging"
    /\ merge_index < num_merges
    /\ Fail("OSError")
    /\ UNCHANGED << input, args, memory_limit, buffer_size,
                    update_buffer_size, sort_calls, prev_run >>
    /\ UNCHANGED runVars

\* _merge, line 223 after the last pass: save_path_tmp is the file to move;
\* it is unbound when no pass ran a group
PassesEnd ==
    /\ pc = "PassMerging"
    /\ merge_index >= num_merges
    /\ IF save_path_tmp = Unbound
       THEN /\ Fail("UnboundLocalError")
            /\ UNCHANGED temp_path
       ELSE /\ temp_path' = save_path_tmp
            /\ pc' = "Finalizing"
            /\ UNCHANGED err
    /\ UNCHANGED << input, args, memory_limit, buffer_size,
                    update_buffer_size, mode, num_split_files,
                    temp_dir_exists, temp_dir, f_pos, block_index, num_merges,
                    num_files_to_merge, merge_index, temp_files, start_index,
                    save_path_tmp, files_to_merge, opened_files, save_file,
                    dir_at_call, sort_calls, prev_run >>

\* _merge lines 214-220 and _merge_files lines 131-133: the next group of
\* the listing is chosen and each of its files opened with buffer_size
GroupOpen ==
    /\ pc = "GroupOpen"
    /\ LET group == SubSeq(temp_files, start_index + 1,
                           Min(start_index + num_files_to_merge,
                               Len(temp_files)))
       IN /\ files_to_merge' = group
          /\ IF buffer_size = 0      \* open(buffering=0) in text mode
             THEN /\ Fail("ValueError")
                  /\ opened_files' = <<>>
             ELSE /\ opened_files' = group
                  /\ pc' = "GroupWrite"
                  /\ UNCHANGED err
    /\ save_path_tmp' = MakeTempfilePath(mode,
                            start_index \div num_files_to_merge, merge_index)
    /\ dir_at_call' = temp_dir
    /\ UNCHANGED << input, args, memory_limit, buffer_size,
                    update_buffer_size, mode, num_split_files,
                    temp_dir_exists, temp_dir, f_pos, block_index, num_merges,
                    num_files_to_merge, merge_index, temp_files, start_index,
                    temp_path, save_file, sort_calls, prev_run >>

\* _merge_files lines 135-137: the output is opened, the merged lines are
\* written to it and it is closed
GroupWrite ==
    /\ pc = "GroupWrite"
    /\ temp_dir' = Put(temp_dir, save_path_tmp,
           Concat(HeapqMerge([i \in DOMAIN opened_files |->
                                 SplitLines(temp_dir[opened_files[i]])])))
    /\ pc' = "GroupClose"
    /\ UNCHANGED << input, args, memory_limit, buffer_size,
                    update_buffer_size, mode, num_split_files, err,
                    temp_dir_exists, f_pos, block_index, num_merges,
                    num_files_to_merge, merge_index, temp_files, start_index,
                    save_path_tmp, files_to_merge, opened_files, temp_path,
                    save_file, dir_at_call, sort_calls, prev_run >>

\* a cleanup that removes only the first input of the group
GroupCloseFirstOnly ==
    /\ pc = "GroupClose"
    /\ opened_files' = <<>>
    /\ temp_dir' = Del(temp_dir, {files_to_merge[1]})
    /\ IF start_index + num_files_to_merge < Len(temp_files)
       THEN /\ start_index' = start_index + num_files_to_merge
            /\ merge_index' = merge_index
            /\ pc' = "GroupOpen"
       ELSE /\ start_index' = start_index
            /\ merge_index' = merge_index + 1
            /\ pc' = "PassMerging"
    /\ UNCHANGED << input, args, memory_limit, buffer_size,
                    update_buffer_size, mode, num_split_files, err,
                    temp_dir_exists, f_pos, block_index, num_merges,
                    num_files_to_merge, temp_files, save_path_tmp,
                    files_to_merge, temp_path, save_file, dir_at_call,
                    sort_calls, prev_run >>

\* _merge_files lines 139-141: every input is closed and removed; then the
\* for loops of _merge go on to the next group or the next pass
GroupClose ==
    /\ pc = "GroupClose"
    /\ opened_files' = <<>>
    /\ temp_dir' = Del(temp_dir, Range(files_to_merge))
    /\ IF start_index + num_files_to_merge < Len(temp_files)
       THEN /\ start_index' = start_index + num_files_to_merge
            /\ merge_index' = merge_index
            /\ pc' = "GroupOpen"
       ELSE /\ start_index' = start_index
            /\ merge_index' = merge_index + 1
            /\ pc' = "PassMerging"
    /\ UNCHANGED << input, args, memory_limit, buffer_size,
                    update_buffer_size, mode, num_split_files, err,
                    temp_dir_exists, f_pos, block_index, num_merges,
                    num_files_to_merge, temp_files, save_path_tmp,
                    files_to_merge, temp_path, save_file, dir_at_call,
                    sort_calls, prev_run >>

\* _move_to_save_path lines 184-187: os.rename(temp_path, save_path)
MoveRename ==
    /\ pc = "Finalizing"
    /\ IF temp_path \in DOMAIN temp_dir
       THEN /\ save_file' = << temp_dir[temp_path] >>
            /\ temp_dir' = Del(temp_dir, {temp_path})
            /\ pc' = "Removing"
            /\ UNCHANGED err
       ELSE /\ Fail("FileNotFoundError")
            /\ UNCHANGED << save_file, temp_dir >>
    /\ UNCHANGED << input, args, memory_limit, buffer_size,
                    update_buffer_size, mode, num_split_files,
                    temp_dir_exists, f_pos, block_index, num_merges,
                    num_files_to_merge, merge_index, temp_files, start_index,
                    save_path_tmp, files_to_merge, opened_files, temp_path,
                    dir_at_call, sort_calls, prev_run >>

\* a finalisation that returns without removing the workspace directory
RemoveDirsSkipped ==
    /\ pc = "Removing"
    /\ pc' = "Done"
    /\ UNCHANGED << input, args, memory_limit, buffer_size,
                    update_buffer_size, mode, num_split_files, err,
                    temp_dir_exists, temp_dir, f_pos, block_index, num_merges,
                    num_files_to_merge, merge_index, temp_files, start_index,
                    save_path_tmp, files_to_merge, opened_files, temp_path,
                    save_file, dir_at_call, sort_calls, prev_run >>

\* _move_to_save_path line 188: os.removedirs removes the workspace
\* directory, which must be empty
RemoveDirs ==
    /\ pc = "Removing"
    /\ IF DOMAIN temp_dir = {}
       THEN /\ temp_dir_exists' = FALSE
            /\ pc' = "Done"
            /\ UNCHANGED err
       ELSE /\ Fail("OSError(ENOTEMPTY)")
            /\ UNCHANGED temp_dir_exists
    /\ UNCHANGED << input, args, memory_limit, buffer_size,
                    update_buffer_size, mode, num_split_files, temp_dir,
                    f_pos, block_index, num_merges, num_files_to_merge,
                    merge_index, temp_files, start_index, save_path_tmp,
                    files_to_merge, opened_files, temp_path, save_file,
                    dir_at_call, sort_calls, prev_run >>

\* ------------------------------------------------- failing I/O operations
\* Each action below is one operating-system call of the run raising
\* OSError; the exception leaves sort() at once.

\* mkdir of the workspace directory fails
MakeTempDirFails ==
    /\ pc = "Idle"
    /\ Fail("OSError")
    /\ UNCHANGED << input, args, memory_limit, buffer_size,
                    update_buffer_size, sort_calls, prev_run >>
    /\ UNCHANGED runVars

\* _split: opening or reading the input or opening the chunk file fails
\* (written = -1), or a write of the block fails after `written` characters
\* reached the file: the writes go through the buffer of temp_file, so the
\* file can end in the middle of a line.  With written = Len(data) the
\* whole chunk is in the file and the close at the end of the with block
\* of line 110 raises after its flush.  An empty block opens no chunk file.
SplitFails ==
    /\ pc = "Splitting"
    /\ LET data == Concat(HeapSort(Readlines(input, f_pos, memory_limit))) IN
       \E written \in -1 .. (IF data = <<>> THEN -1 ELSE Len(data)) :
          temp_dir' = IF written = -1 THEN temp_dir
                      ELSE Put(temp_dir,
                               MakeTempfilePath(mode, block_index, None),
                               SubSeq(data, 1, written))
    /\ Fail("OSError")
    /\ UNCHANGED << input, args, memory_limit, buffer_size,
                    update_buffer_size, mode, num_split_files,
                    temp_dir_exists, f_pos, block_index, num_merges,
                    num_files_to_merge, merge_index, temp_files, start_index,
                    save_path_tmp, files_to_merge, opened_files, temp_path,
                    save_file, dir_at_call, sort_calls, prev_run >>

\* _merge_files lines 131-133: the open of the k-th input fails; the
\* inputs opened before it stay open
GroupOpenFails ==
    /\ pc = "GroupOpen"
    /\ buffer_size # 0
    /\ LET group == SubSeq(temp_files, start_index + 1,
                           Min(start_index + num_files_to_merge,
                               Len(temp_files)))
       IN /\ files_to_merge' = group
          /\ \E k \in 1 .. Len(group) : opened_files' = SubSeq(group, 1, k - 1)
    /\ save_path_tmp' = MakeTempfilePath(mode,
                            start_index \div num_files_to_merge, merge_index)
    /\ dir_at_call' = temp_dir
    /\ Fail("OSError")
    /\ UNCHANGED << input, args, memory_limit, buffer_size,
                    update_buffer_size, mode, num_split_files,
                    temp_dir_exists, temp_dir, f_pos, block_index, num_merges,
                    num_files_to_merge, merge_index, temp_files, start_index,
                    temp_path, save_file, sort_calls, prev_run >>

\* The ways lines 135-137 can fail on the inputs `its`, each with the
\* characters that reached the output file (the writes go through its
\* buffer, so the file can end in the middle of a line) and the input the
\* failure closes (0 for none):
\*  - opening the output fails (written = -1): there is no output file;
\*  - a read of an input, the flush at the end of the with block, or
\*    f.write of a line yielded by the heap loop raises: no input is closed;
\*  - the read heapq.merge makes after the last line was written, or the
\*    close of the output after its flush, raises (written = Len(data)):
\*    the whole merged output is in the file and no input is closed;
\*  - f.write of the k-th line raises while the generator is suspended in
\*    `yield from`: the for loop drops the generator, which closes the
\*    input it delegates to.  The close of the output then flushes what
\*    its buffer holds, so the file can hold the first k lines in full,
\*    the whole merged output when k is the last line.
WriteFailuresOf(merged, from, data) ==
    { [written |-> -1, data |-> <<>>, closed |-> 0] } \cup
    { [written |-> w, data |-> SubSeq(data, 1, w), closed |-> 0] :
          w \in 0 .. Len(data) } \cup
    UNION { { [written |-> w, data |-> SubSeq(data, 1, w),
               closed |-> from[k].src] :
                  w \in 0 .. Len(Concat(SubSeq(merged, 1, k))) } :
            k \in { j \in 1 .. Len(merged) : from[j].delegated } }

WriteFailures(its) ==
    WriteFailuresOf(HeapqMerge(its), MergeSources(its, FALSE),
                    Concat(HeapqMerge(its)))

\* _merge_files lines 135-137 fail; the with statement closes the output,
\* the inputs stay open except the one a dropped generator closes
GroupWriteFails ==
    /\ pc = "GroupWrite"
    /\ \E o \in WriteFailures([i \in DOMAIN opened_files |->
                                  SplitLines(temp_dir[opened_files[i]])]) :
          /\ temp_dir' = IF o.written = -1 THEN temp_dir
                         ELSE Put(temp_dir, save_path_tmp, o.data)
          /\ opened_files' = IF o.closed = 0 THEN opened_files
                             ELSE RemoveAt(opened_files, o.closed)
    /\ Fail("OSError")
    /\ UNCHANGED << input, args, memory_limit, buffer_size,
                    update_buffer_size, mode, num_split_files,
                    temp_dir_exists, f_pos, block_index, num_merges,
                    num_files_to_merge, merge_index, temp_files, start_index,
                    save_path_tmp, files_to_merge, temp_path,
                    save_file, dir_at_call, sort_calls, prev_run >>

\* _merge_files lines 139-141: os.remove of the k-th input fails after the
\* inputs before it were closed and removed and the k-th was closed
GroupCloseFails ==
    /\ pc = "GroupClose"
    /\ \E k \in 1 .. Len(files_to_merge) :
          /\ opened_files' = SubSeq(opened_files, k + 1, Len(opened_files))
          /\ temp_dir' = Del(temp_dir, Range(SubSeq(files_to_merge, 1, k - 1)))
    /\ Fail("OSError")
    /\ UNCHANGED << input, args, memory_limit, buffer_size,
                    update_buffer_size, mode, num_split_files,
                    temp_dir_exists, f_pos, block_index, num_merges,
                    num_files_to_merge, merge_index, temp_files, start_index,
                    save_path_tmp, files_to_merge, temp_path, save_file,
                    dir_at_call, sort_calls, prev_run >>

\* _move_to_save_path line 187: os.rename fails
MoveRenameFails ==
    /\ pc = "Finalizing"
    /\ Fail("OSError")
    /\ UNCHANGED << input, args, memory_limit, buffer_size,
                    update_buffer_size, sort_calls, prev_run >>
    /\ UNCHANGED runVars

\* _move_to_save_path line 188: os.removedirs fails after the rename
RemoveDirsFails ==
    /\ pc = "Removing"
    /\ Fail("OSError")
    /\ UNCHANGED << input, args, memory_limit, buffer_size,
                    update_buffer_size, sort_calls, prev_run >>
    /\ UNCHANGED runVars

\* ------------------------------------------------------------ second run
\* The same input is sorted again by a new ExternalMergeSort that differs
\* from the first only in memory_limit; the first run's destination file
\* stays where it is until os.rename replaces it, and its contents are
\* remembered.
SortAgain ==
    /\ pc = "Done"
    /\ sort_calls = 1
    /\ \E m \in MemoryLimitArgs \ {args.memory_limit} :
          /\ args' = [args EXCEPT !.memory_limit = m]
          /\ memory_limit' \in IF m = None THEN AvailableMemoryTried ELSE {m}
    /\ buffer_size' = IF args.buffer_size = None THEN DEFAULT_BUFFER_SIZE
                      ELSE args.buffer_size
    /\ mode' = "unset"
    /\ num_split_files' = 0
    /\ pc' = "Idle"
    /\ temp_dir' = EmptyDir
    /\ f_pos' = 0
    /\ block_index' = 0
    /\ num_merges' = 0
    /\ num_files_to_merge' = 0
    /\ merge_index' = 0
    /\ temp_files' = <<>>
    /\ start_index' = 0
    /\ save_path_tmp' = Unbound
    /\ files_to_merge' = <<>>
    /\ opened_files' = <<>>
    /\ temp_path' = Unbound
    /\ dir_at_call' = EmptyDir
    /\ sort_calls' = 2
    /\ prev_run' = [out |-> save_file, chunks |-> num_split_files,
                    passes |-> num_merges]
    /\ UNCHANGED << input, update_buffer_size, err, temp_dir_exists,
                    save_file >>

Next ==
    \/ MakeTempDir
    \/ SplitBlock
    \/ SplitEnd
    \/ MergeBegin
    \/ PassBegin
    \/ PassesEnd
    \/ GroupOpen
    \/ GroupWrite
    \/ GroupClose
    \/ MoveRename
    \/ RemoveDirs
    \/ MakeTempDirFails
    \/ SplitFails
    \/ PassBeginFails
    \/ GroupOpenFails
    \/ GroupWriteFails
    \/ GroupCloseFails
    \/ MoveRenameFails
    \/ RemoveDirsFails
    \/ SortAgain

Spec == Init /\ [][Next]_vars

\* ------------------------------------------------- the planner on its own
\* _merge entered with the fields num_split_files, memory_limit and
\* buffer_size set to any values within the bounds, and with
\* buffer_size = 1 also to the large chunk counts.  The chunk files are
\* listed for the counts up to MaxChunks; for a large count only the count
\* is kept, which is all that lines 198-208 read.
InitPlan ==
    /\ input = <<>>
    /\ \E m \in 1 .. MaxMemory, b \in 1 .. MaxBuffer, u \in BOOLEAN :
          /\ args = [memory_limit |-> m, buffer_size |-> b,
                     update_buffer_size |-> u]
          /\ memory_limit = m
          /\ buffer_size = b
          /\ update_buffer_size = u
    /\ num_split_files \in (0 .. MaxChunks) \cup
                           (IF buffer_size = 1 THEN LargeChunkCounts ELSE {})
    /\ mode = "split"
    /\ pc = "Planning"
    /\ err = "none"
    /\ temp_dir_exists = TRUE
    /\ temp_dir = IF num_split_files \in LargeChunkCounts THEN EmptyDir
                  ELSE [n \in { << "split", i >> :
                                   i \in 0 .. num_split_files - 1 }
                          |-> << CharB, NL >>]
    /\ f_pos = 0
    /\ block_index = num_split_files
    /\ num_merges = 0
    /\ num_files_to_merge = 0
    /\ merge_index = 0
    /\ temp_files = <<>>
    /\ start_index = 0
    /\ save_path_tmp = Unbound
    /\ files_to_merge = <<>>
    /\ opened_files = <<>>
    /\ temp_path = Unbound
    /\ save_file = <<>>
    /\ dir_at_call = EmptyDir
    /\ sort_calls = 1
    /\ prev_run = [out |-> <<>>, chunks |-> 0, passes |-> 0]

NextPlan == MergeBegin

SpecPlan == InitPlan /\ [][NextPlan]_vars

\* --------------------------------------------- runs without an I/O failure
\* sort() when every operating-system call succeeds
NextRun ==
    \/ MakeTempDir
    \/ SplitBlock
    \/ SplitEnd
    \/ MergeBegin
    \/ PassBegin
    \/ PassesEnd
    \/ GroupOpen
    \/ GroupWrite
    \/ GroupClose
    \/ MoveRename
    \/ RemoveDirs

\* ------------------------------------------------ a workspace left behind
\* sort() entered while file_path + '__tmp' exists and holds one chunk file
\* split_i.txt of an earlier run that failed; _make_temp_dir accepts the
\* directory (exist_ok=True, line 67).
MaxStaleLines == 2
MaxStaleIndex == 2

StaleInputs == { Concat(ls) : ls \in LineSeqs(MaxStaleLines) }

StaleWorkspaces ==
    { [n \in { << "split", i >> } |-> l] : i \in 0 .. MaxStaleIndex,
                                           l \in LineSet }

InitStale ==
    /\ input \in StaleInputs
    /\ \E a \in ArgSets :
          /\ args = a
          /\ buffer_size = IF a.buffer_size = None THEN DEFAULT_BUFFER_SIZE
                           ELSE a.buffer_size
          /\ memory_limit \in IF a.memory_limit = None THEN AvailableMemoryTried
                              ELSE {a.memory_limit}
          /\ update_buffer_size = a.update_buffer_size
    /\ mode = "unset"
    /\ num_split_files = 0
    /\ pc = "Idle"
    /\ err = "none"
    /\ temp_dir_exists = TRUE
    /\ temp_dir \in StaleWorkspaces
    /\ f_pos = 0
    /\ block_index = 0
    /\ num_merges = 0
    /\ num_files_to_merge = 0
    /\ merge_index = 0
    /\ temp_files = <<>>
    /\ start_index = 0
    /\ save_path_tmp = Unbound
    /\ files_to_merge = <<>>
    /\ opened_files = <<>>
    /\ temp_path = Unbound
    /\ save_file = <<>>
    /\ dir_at_call = EmptyDir
    /\ sort_calls = 1
    /\ prev_run = [out |-> <<>>, chunks |-> 0, passes |-> 0]

SpecStale == InitStale /\ [][NextRun]_vars

\* ------------------------------------- an input without a final separator
\* files of at most MaxNoEolLines records whose last record is not
\* terminated by NL
MaxNoEolLines == 3

NoEolInputs ==
    { Concat(ls) \o SubSeq(l, 1, Len(l) - 1) :
          ls \in LineSeqs(MaxNoEolLines - 1), l \in LineSet }

InitNoEol ==
    /\ input \in NoEolInputs
    /\ \E a \in ArgSets : Construct(a)
    /\ sort_calls = 1
    /\ prev_run = [out |-> <<>>, chunks |-> 0, passes |-> 0]

SpecNoEol == InitNoEol /\ [][NextRun]_vars

\* ================================================================ claims
\* s <= t in lexicographic order of the character codes
LexLeq(s, t) ==
    \/ /\ Len(s) <= Len(t)
       /\ \A i \in 1 .. Len(s) : s[i] = t[i]
    \/ \E i \in 1 .. Min(Len(s), Len(t)) :
          /\ s[i] < t[i]
          /\ \A j \in 1 .. i - 1 : s[j] = t[j]

IsSorted(lines) ==
    \A i \in 1 .. Len(lines) - 1 : LexLeq(lines[i], lines[i + 1])

Occurrences(l, lines) == Cardinality({ i \in DOMAIN lines : lines[i] = l })

SameMultiset(ls, ms) ==
    \A l \in Range(ls) \cup Range(ms) : Occurrences(l, ls) = Occurrences(l, ms)

InputLines == SplitLines(input)

OutputLines == SplitLines(save_file[1])

\* the destination as the current run found it: absent in the first run,
\* the first run's output in the second
DestinationAtEntry == IF sort_calls = 1 THEN <<>> ELSE prev_run.out

\* C1: whenever sort() completes, every adjacent pair of lines of the
\* destination file is in non-decreasing lexicographic order.
Sortedness ==
    pc = "Done" => IsSorted(OutputLines)

\* a completed run of at least two passes over at least three chunks of an
\* unsorted input whose output has two different lines
SortednessWitness ==
    /\ pc = "Done"
    /\ num_split_files >= 3
    /\ num_merges >= 2
    /\ ~IsSorted(InputLines)
    /\ Cardinality(Range(OutputLines)) >= 2

\* C2: whenever sort() completes, the destination file holds exactly the
\* multiset of lines of the input file.
PermutationPreservation ==
    pc = "Done" => /\ Len(save_file) = 1
                   /\ SameMultiset(OutputLines, InputLines)

\* a completed multi-pass run whose input repeats a line
PermutationWitness ==
    /\ pc = "Done"
    /\ num_split_files >= 2
    /\ num_merges >= 2
    /\ \E l \in Range(InputLines) : Occurrences(l, InputLines) >= 2
    /\ Cardinality(Range(InputLines)) >= 2

\* C3 (as claimed): while a merge group is open, its input buffers plus the
\* one output buffer, at the buffer size in force, fit in memory_limit.
MemoryBound ==
    pc = "GroupWrite" =>
        (Len(opened_files) + 1) * buffer_size <= memory_limit

\* C4: after a successful run the workspace directory does not exist, no
\* temp file remains and the destination file exists.
CleanupAfterDone ==
    pc = "Done" => /\ ~temp_dir_exists
                   /\ DOMAIN temp_dir = {}
                   /\ opened_files = <<>>
                   /\ Len(save_file) = 1

\* a completed run that had created split and merge files in two passes
CleanupWitness ==
    /\ pc = "Done"
    /\ num_split_files >= 3
    /\ num_merges >= 2
    /\ save_path_tmp[1] = "merge"
    /\ ~temp_dir_exists

\* C5 (as claimed): a run on an empty input that no I/O failure interrupts
\* ends in Done with an empty destination file and no workspace.
EmptyInputCompletes ==
    (input = <<>> /\ pc \in {"Done", "Failed"} /\ err # "OSError") =>
        /\ pc = "Done"
        /\ save_file = << <<>> >>
        /\ ~temp_dir_exists

\* C6: with exactly one chunk the run goes from the split straight to the
\* finalisation: no plan is computed, _merge_files is never called, and
\* split_0.txt is what is renamed to the destination.
SingleChunkShortCircuit ==
    (num_split_files = 1 /\ pc \notin {"Idle", "Splitting", "Planning"}) =>
        /\ pc \in {"Finalizing", "Removing", "Done", "Failed"}
        /\ pc = "Failed" => err = "OSError"
        /\ num_merges = 0
        /\ num_files_to_merge = 0
        /\ buffer_size = IF args.buffer_size = None THEN DEFAULT_BUFFER_SIZE
                         ELSE args.buffer_size
        /\ save_path_tmp = Unbound
        /\ dir_at_call = EmptyDir
        /\ temp_path = << "split", 0 >>
        /\ (pc = "Finalizing" \/
            (pc = "Failed" /\ << "split", 0 >> \in DOMAIN temp_dir)) =>
               /\ DOMAIN temp_dir = { << "split", 0 >> }
               /\ save_file = DestinationAtEntry
        /\ (pc \in {"Removing", "Done"} \/
            (pc = "Failed" /\ << "split", 0 >> \notin DOMAIN temp_dir)) =>
               /\ DOMAIN temp_dir = {}
               /\ Len(save_file) = 1
               /\ Len(save_file[1]) = Len(input)

\* a completed run on a single-line input
SingleChunkWitness ==
    /\ pc = "Done"
    /\ num_split_files = 1
    /\ Len(InputLines) = 1
    /\ save_file = << input >>

\* C7: a second run on the same input that differs from the first only in
\* memory_limit produces the same destination file, byte for byte.
ChunkCountInvariance ==
    (pc = "Done" /\ sort_calls = 2) => save_file = prev_run.out

\* two completed runs on one unsorted input with different chunk and pass
\* counts
ChunkCountWitness ==
    /\ pc = "Done"
    /\ sort_calls = 2
    /\ prev_run.chunks = 1
    /\ num_split_files >= 3
    /\ num_merges >= 2
    /\ ~IsSorted(InputLines)

\* C8: sorting an input whose lines are already in non-decreasing order
\* reproduces it unchanged.
IdempotentOnSorted ==
    (pc = "Done" /\ IsSorted(InputLines)) => save_file = << input >>

\* a completed multi-chunk run on a sorted input with different lines
IdempotentWitness ==
    /\ pc = "Done"
    /\ IsSorted(InputLines)
    /\ Cardinality(Range(InputLines)) >= 2
    /\ num_split_files >= 2

\* C9 (as claimed): a run that ended with an error has put no file at the
\* destination path: the destination is as the run found it.
NoPartialPromotion ==
    pc = "Failed" => save_file = DestinationAtEntry

\* C10: after a successful _merge_files(files_to_merge, save_path_tmp),
\* every input is closed and deleted, save_path_tmp exists and every other
\* file of the workspace is as it was when the call began.
MergeFilesFrame ==
    (pc \in {"GroupOpen", "PassMerging", "Finalizing"}
     /\ save_path_tmp # Unbound) =>
        /\ opened_files = <<>>
        /\ DOMAIN temp_dir =
               (DOMAIN dir_at_call \ Range(files_to_merge)) \cup {save_path_tmp}
        /\ \A n \in DOMAIN dir_at_call \ Range(files_to_merge) :
               temp_dir[n] = dir_at_call[n]

\* a finished call that merged two inputs of different numbers of lines
\* while another file was in the workspace
MergeFilesFrameWitness ==
    /\ pc = "GroupOpen"
    /\ save_path_tmp # Unbound
    /\ Len(files_to_merge) = 2
    /\ Len(SplitLines(dir_at_call[files_to_merge[1]]))
           # Len(SplitLines(dir_at_call[files_to_merge[2]]))
    /\ DOMAIN dir_at_call \ Range(files_to_merge) # {}
    /\ save_path_tmp \in DOMAIN temp_dir

\* the buffer size the object was constructed with
InitialBufferSize ==
    IF args.buffer_size = None THEN DEFAULT_BUFFER_SIZE ELSE args.buffer_size

CeilDiv(a, b) == (a + b - 1) \div b

\* C11: with at least two chunks and a plan of K >= 1 passes of fan-in X',
\* every group has at most X' files, the workspace holds
\* ceil(N / X'^i) files after pass i, and after the last pass the one file
\* left is the file that is moved to the destination.
PassReduction ==
    (num_split_files >= 2 /\ num_merges >= 1) =>
        /\ pc = "PassMerging" =>
               Cardinality(DOMAIN temp_dir) =
                   CeilDiv(num_split_files, num_files_to_merge ^ merge_index)
        /\ pc \in {"GroupWrite", "GroupClose"} =>
               /\ Len(temp_files) =
                      CeilDiv(num_split_files,
                              num_files_to_merge ^ merge_index)
               /\ Len(files_to_merge) \in 1 .. num_files_to_merge
        /\ pc = "Finalizing" =>
               /\ merge_index = num_merges
               /\ DOMAIN temp_dir = { temp_path }
               /\ temp_path = << "merge", num_merges - 1, 0 >>

\* the end of a run of at least two passes over at least three chunks
PassReductionWitness ==
    /\ pc = "Finalizing"
    /\ num_split_files >= 3
    /\ num_merges >= 2
    /\ DOMAIN temp_dir = { temp_path }

\* C12: for N >= 2 chunks and M/B > 2 the planned fan-in X' and pass count
\* K satisfy X'^K >= N, and X' is the least such: (X' - 1)^K < N.
\* The plan for 3125 = 5^5 chunks with M/B = 6 is K = 5, X' = 6, because
\* 3125 ** (1/5) is 5.000000000000001 in float64: (X' - 1)^K = 3125 = N.
PlanCapacity ==
    (pc = "PassMerging" /\ num_split_files >= 2
     /\ memory_limit > 2 * InitialBufferSize) =>
        /\ num_files_to_merge ^ num_merges >= num_split_files
        /\ (num_files_to_merge - 1) ^ num_merges < num_split_files

\* C13: for N >= 2 chunks and M/B > 2 the planned pass count K is the
\* least positive integer with (M/B - 1)^K >= N.
\* The plan for 134217728 = 8^9 chunks with M/B = 9 has K = 10, because
\* 1 / (log(8) / log(134217728)) is 9.000000000000002 in float64.
PlanPasses ==
    (pc = "PassMerging" /\ num_split_files >= 2
     /\ memory_limit > 2 * InitialBufferSize) =>
        LET X_num == memory_limit - InitialBufferSize
            X_den == InitialBufferSize
        IN /\ num_merges >= 1
           /\ X_num ^ num_merges >= num_split_files * X_den ^ num_merges
           /\ \A k \in 1 .. num_merges - 1 :
                  X_num ^ k < num_split_files * X_den ^ k

\* C14: the workspace holds exactly the inputs of the current pass that
\* were not yet removed and the outputs the pass produced so far; at the
\* end of a pass only that pass's outputs are left.
WorkspaceLifecycle ==
    LET unconsumed == { temp_files[i] : i \in start_index + 1 .. Len(temp_files) }
        produced(n) == { << "merge", merge_index, j >> : j \in 0 .. n - 1 }
        done == start_index \div num_files_to_merge
    IN /\ pc = "Splitting" =>
              DOMAIN temp_dir = { << "split", i >> : i \in 0 .. block_index - 1 }
       /\ pc \in {"GroupOpen", "GroupWrite"} =>
              DOMAIN temp_dir = unconsumed \cup produced(done)
       /\ pc = "GroupClose" =>
              DOMAIN temp_dir = unconsumed \cup produced(done + 1)
       /\ (pc = "PassMerging" /\ merge_index = 0) =>
              DOMAIN temp_dir =
                  { << "split", i >> : i \in 0 .. num_split_files - 1 }
       /\ (pc = "PassMerging" /\ merge_index >= 1) =>
              \A n \in DOMAIN temp_dir :
                  n[1] = "merge" /\ n[2] = merge_index - 1

\* the end of the first pass of a run over at least three chunks, with two
\* outputs of that pass and no chunk file in the workspace
WorkspaceLifecycleWitness ==
    /\ pc = "PassMerging"
    /\ merge_index = 1
    /\ num_split_files >= 3
    /\ Cardinality(DOMAIN temp_dir) >= 2

\* C15: every chunk file written by the split phase holds a block whose
\* cumulative line size is at most memory_limit.
SplitBlockBound ==
    \A n \in DOMAIN temp_dir :
        (pc = "Splitting" /\ n[1] = "split") =>
            Len(temp_dir[n]) <= memory_limit

\* C16: when _merge_files has raised, every handle it opened is closed.
HandlesReleased ==
    pc = "Failed" => opened_files = <<>>

\* C17: once at least two chunks were produced under memory_limit <= 2 *
\* buffer_size, the run is either between the planner and line 223 with a
\* plan of no pass, or has failed with the exception the planner or line
\* 223 raised; no group was opened or merged and the destination is as
\* the run found it.
DegenerateRunFails ==
    ( /\ num_split_files >= 2
      /\ memory_limit <= 2 * InitialBufferSize
      /\ pc \notin {"Idle", "Splitting", "Planning"} ) =>
        /\ pc \in {"PassMerging", "Failed"}
        /\ pc = "PassMerging" => (num_merges < 0 /\ merge_index = 0)
        /\ pc = "Failed" =>
               err \in {"ValueError", "ZeroDivisionError", "OverflowError",
                        "UnboundLocalError"}
        /\ save_file = DestinationAtEntry
        /\ save_path_tmp = Unbound
        /\ opened_files = <<>>
        /\ DOMAIN temp_dir =
               { << "split", i >> : i \in 0 .. num_split_files - 1 }

\* a run of at least two chunks with 1 < M/B < 2 whose plan had a negative
\* pass count and that failed at line 223
DegenerateRunFailsWitness ==
    /\ pc = "Failed"
    /\ num_split_files >= 2
    /\ memory_limit <= 2 * InitialBufferSize
    /\ num_merges < 0
    /\ err = "UnboundLocalError"

\* the failing step of C18: apart from the inputs _merge_files had already
\* removed before the failing os.remove, every file of the workspace is
\* still there with its content, and the destination and the workspace
\* directory are as before
FailStepKeepsFiles ==
    (pc' = "Failed" /\ err' = "OSError") =>
        /\ save_file' = save_file
        /\ temp_dir_exists' = temp_dir_exists
        /\ LET lost == DOMAIN temp_dir \ DOMAIN temp_dir' IN
           IF pc = "GroupClose"
           THEN lost \subseteq Range(files_to_merge) /\
                lost # Range(files_to_merge)
           ELSE lost = {}
        /\ \A n \in DOMAIN temp_dir \cap DOMAIN temp_dir' :
               temp_dir'[n] = temp_dir[n]

\* C18: an I/O failure in any state puts the run in Failed with the error
\* recorded, the failing step rolls nothing back, and a failed run takes no
\* further step.
FailureStops ==
    /\ [](err # "none" => pc = "Failed")
    /\ [][FailStepKeepsFiles]_vars
    /\ [][pc # "Failed"]_vars

\* a write failure in the middle of a merge pass: at least two temp files
\* are left in the workspace and nothing is at the destination
FailureStopsWitness ==
    /\ pc = "Failed"
    /\ err = "OSError"
    /\ mode = "merge"
    /\ opened_files # <<>>
    /\ Cardinality(DOMAIN temp_dir) >= 2
    /\ save_file = <<>>

\* C19: a run that starts over a workspace holding a file of an earlier run
\* completes with the sorted lines of its own input at the destination and
\* the workspace removed, and the removal of the workspace never fails on
\* a leftover file.
StaleWorkspaceHarmless ==
    /\ pc = "Done" =>
           /\ IsSorted(OutputLines)
           /\ SameMultiset(OutputLines, InputLines)
           /\ ~temp_dir_exists
    /\ err # "OSError(ENOTEMPTY)"

\* C20: when sort() completes on an input whose last record has no NL, the
\* destination has as many lines as the input has records and the same
\* records.
UnterminatedRecordKept ==
    pc = "Done" =>
        /\ Len(OutputLines) = Len(InputLines)
        /\ \A r \in Range(InputLines) :
               \E i \in DOMAIN OutputLines :
                   OutputLines[i] = r \/ OutputLines[i] = Append(r, NL)

====
